---- MODULE Spec2Model ----
(***************************************************************************)
(* Peer entity of crates/net/network-types/src/peers/mod.rs: the           *)
(* reputation engine (apply_reputation, reset_reputation, unban), the      *)
(* constructors, and the connection state it drives.                       *)
(*                                                                         *)
(* The threshold predicate, the default reputation, the PeerKind enum and  *)
(* the PeerConnectionState enum with its transitions live in sibling       *)
(* modules (reputation, kind, state) that are imported by mod.rs lines     *)
(* 14-17; they are modelled from the design document (sections 3, 4.2,     *)
(* 4.3 and 8).                                                             *)
(***************************************************************************)
EXTENDS Integers, Sequences, FiniteSets, TLC

VARIABLES
    peer,      \* the Peer struct (mod.rs 21-39)
    basic,     \* a second Peer of kind Basic that is given the same operations
    before,    \* the Peer as it was when the last operation was entered
    lastOp,    \* name of the last operation executed on the peer
    delta,     \* the `reputation` argument of the last operation, 0 if it took none
    outcome,   \* what the last operation returned
    applies,   \* number of apply_reputation calls so far
    given,     \* the kind or state handed to the constructor, while the peer is fresh
    key,       \* the PeerId under which the owner holds the peer
    entry,     \* the stored entry being written or read at shutdown / startup
    info,      \* the PersistedPeerInfo being written or read at shutdown / startup
    checkpoints, \* the stage checkpoint table of the database: stage id -> checkpoint
    progress,    \* the stage checkpoint progress table: stage id -> bytes
    prev,        \* both tables as they were before the last command
    cmd          \* the last stage-checkpoints command, its arguments and its output

dbVars == <<checkpoints, progress, prev, cmd>>

vars == <<peer, basic, before, lastOp, delta, outcome, applies, given, key, entry, info,
          checkpoints, progress, prev, cmd>>

----------------------------------------------------------------------------
(* Bounds *)

\* apply_reputation calls explored per behaviour
MaxApplies == 3

\* severe connection failures counted before a successful connection
MaxSevereBackoff == 3

----------------------------------------------------------------------------
(* Integer domain of `reputation: i32` (mod.rs 25) *)

I32_MAX == 2147483647
I32_MIN == (-2147483647) - 1

\* Variant of saturating_add: two's-complement wrap-around (i32::wrapping_add).
wrapping_add(a, b) ==
    IF b > 0 /\ a > I32_MAX - b THEN I32_MIN + ((b - (I32_MAX - a)) - 1)
    ELSE IF b < 0 /\ a < I32_MIN - b THEN ((I32_MAX + a) + 1) - (I32_MIN - b)
    ELSE a + b

\* i32::saturating_add as used at mod.rs 94, computed without leaving the
\* 32-bit range.
saturating_add(a, b) ==
    IF b > 0 /\ a > I32_MAX - b THEN I32_MAX
    ELSE IF b < 0 /\ a < I32_MIN - b THEN I32_MIN
    ELSE a + b

----------------------------------------------------------------------------
(* Imported items (mod.rs 14-17), modelled from the design document *)

\* "a peer at default reputation 0"
DEFAULT_REPUTATION == 0

\* "against a ban threshold of -50"
BANNED_REPUTATION == -50

\* "is_banned(): reputation below threshold"
is_banned_reputation(reputation) == reputation < BANNED_REPUTATION

\* trust classes: Basic / Static / Trusted
PeerKind == {"Basic", "Static", "Trusted"}

\* PeerKind::default()
DefaultKind == "Basic"

\* connection states of section 4.3
PeerConnectionState ==
    {"Idle", "ConnectingOutbound", "ConnectingInbound", "Connected", "Disconnecting"}

\* PeerConnectionState::default(): "Initial state: Idle"
DefaultState == "Idle"

\* "is_connected() is true only in the Connected state"
is_connected(state) == state = "Connected"

\* Variant of disconnect: every state with a session or an attempt in flight
\* is moved to Disconnecting.
disconnect_AnyLive(state) == IF state = "Idle" THEN state ELSE "Disconnecting"

\* "disconnect() is a no-op if not currently Connected"
disconnect(state) == IF state = "Connected" THEN "Disconnecting" ELSE state

\* Idle -> Connecting-Outbound (dial initiated)
dial_initiated(state) == IF state = "Idle" THEN "ConnectingOutbound" ELSE state

\* Idle -> Connecting-Inbound (inbound handshake begins)
inbound_handshake(state) == IF state = "Idle" THEN "ConnectingInbound" ELSE state

\* Connecting-* -> Connected (handshake success)
handshake_success(state) ==
    IF state \in {"ConnectingOutbound", "ConnectingInbound"} THEN "Connected" ELSE state

\* Connecting-* -> Idle (handshake failure)
handshake_failure(state) ==
    IF state \in {"ConnectingOutbound", "ConnectingInbound"} THEN "Idle" ELSE state

\* Variant of closure_confirmed: the confirmation is ignored.
closure_confirmed_Ignored(state) == state

\* Disconnecting -> Idle (transport confirms closure)
closure_confirmed(state) == IF state = "Disconnecting" THEN "Idle" ELSE state

\* Variant of connection_failed: every failure counts as a severe one.
connection_failed_AllSevere(self, severe) ==
    [self EXCEPT !.state = handshake_failure(@),
                 !.severe_backoff_counter = @ + 1,
                 !.backed_off = TRUE]

\* Backoff escalator (section 4.4) on a failed connection attempt: a
\* severe-category failure "increments severe_backoff_counter and sets
\* backed_off = true"; nothing is said to change on any other failure.
connection_failed(self, severe) ==
    IF severe
    THEN [self EXCEPT !.state = handshake_failure(@),
                      !.severe_backoff_counter = @ + 1,
                      !.backed_off = TRUE]
    ELSE [self EXCEPT !.state = handshake_failure(@)]

\* Variant of connection_established: the counter survives the connection.
connection_established_KeepsCounter(self) ==
    [self EXCEPT !.state = handshake_success(@), !.backed_off = FALSE]

\* Backoff escalator (section 4.4) on a successful connection: "clears
\* backed_off and resets the counter to zero".
connection_established(self) ==
    [self EXCEPT !.state = handshake_success(@),
                 !.backed_off = FALSE,
                 !.severe_backoff_counter = 0]

----------------------------------------------------------------------------
(* Inputs *)

\* peer addresses
Addrs == {"addr1"}

\* fork_id: Option<Box<ForkId>>
NoForkId == "None"

\* fork ids a peer can announce via discovery
ForkIds == {"fork1"}

\* peer ids (NodeRecord::id)
PeerIds == {"id1", "id2"}

\* NodeRecord (id, address, ports)
NodeRecords == [id : PeerIds, address : Addrs]

\* reputation changes handed to apply_reputation: the two ends of i32, a
\* change that crosses the threshold from the default (-60), and small steps
\* that reach the threshold exactly (-60 + 10 = -50).
Deltas == {I32_MIN, -60, -10, 10, I32_MAX}

\* values of ReputationChangeOutcome, and "Unit" for a fn that returns ()
ReputationChangeOutcome == {"None", "Ban", "Unban", "DisconnectAndBan"}
Unit == "Unit"

\* no kind or state argument
NoArg == "NoArg"

\* the constructors of Peer
Constructors == {"new", "trusted", "with_kind", "with_state"}

----------------------------------------------------------------------------
(* impl Peer *)

\* Variant of with_state: the peer always starts in the default state.
with_state_Idle(addr, state) ==
    [ addr                   |-> addr,
      state                  |-> DefaultState,
      reputation             |-> DEFAULT_REPUTATION,
      fork_id                |-> NoForkId,
      remove_after_disconnect |-> FALSE,
      kind                   |-> DefaultKind,
      backed_off             |-> FALSE,
      severe_backoff_counter |-> 0 ]

\* Peer::with_state (mod.rs 60-71)
with_state(addr, state) ==
    [ addr                   |-> addr,
      state                  |-> state,
      reputation             |-> DEFAULT_REPUTATION,
      fork_id                |-> NoForkId,
      remove_after_disconnect |-> FALSE,
      kind                   |-> DefaultKind,
      backed_off             |-> FALSE,
      severe_backoff_counter |-> 0 ]

\* Peer::new (mod.rs 45-47)
new(addr) == with_state(addr, DefaultState)

\* Peer::trusted (mod.rs 50-52)
trusted(addr) == [new(addr) EXCEPT !.kind = "Trusted"]

\* Peer::with_kind (mod.rs 74-76)
with_kind(addr, kind) == [new(addr) EXCEPT !.kind = kind]

\* Peer::is_banned (mod.rs 116-118)
is_banned(self) == is_banned_reputation(self.reputation)

\* Peer::is_trusted (mod.rs 134-136)
is_trusted(self) == self.kind = "Trusted"

\* Peer::is_static (mod.rs 140-142)
is_static(self) == self.kind = "Static"

\* Variant of reset_reputation: reports Unban when the reset lifts a ban.
reset_reputation_ReportsUnban(self) ==
    [ self |-> [self EXCEPT !.reputation = DEFAULT_REPUTATION],
      ret  |-> IF is_banned(self) THEN "Unban" ELSE "None" ]

\* Peer::reset_reputation (mod.rs 80-84)
reset_reputation(self) ==
    [ self |-> [self EXCEPT !.reputation = DEFAULT_REPUTATION],
      ret  |-> "None" ]

\* Variant of unban: the backoff status is cleared with the ban.
unban_ClearsBackoff(self) ==
    [ self |-> [self EXCEPT !.reputation = DEFAULT_REPUTATION,
                            !.backed_off = FALSE,
                            !.severe_backoff_counter = 0],
      ret  |-> Unit ]

\* Peer::unban (mod.rs 128-130): no return value
unban(self) ==
    [ self |-> [self EXCEPT !.reputation = DEFAULT_REPUTATION],
      ret  |-> Unit ]

\* Variant of apply_reputation: Ban is decided on the new score alone.
apply_reputation_BanWhileBanned(self, reputation) ==
    LET previous == self.reputation
        s1 == [self EXCEPT !.reputation = saturating_add(previous, reputation)]
    IN  IF is_connected(s1.state) /\ is_banned(s1)
        THEN [ self |-> [s1 EXCEPT !.state = disconnect(s1.state)],
               ret  |-> "DisconnectAndBan" ]
        ELSE IF is_banned(s1)
        THEN [ self |-> s1, ret |-> "Ban" ]
        ELSE IF ~is_banned(s1) /\ is_banned_reputation(previous)
        THEN [ self |-> s1, ret |-> "Unban" ]
        ELSE [ self |-> s1, ret |-> "None" ]

\* Variant of apply_reputation: Unban requires the new score to be strictly
\* above the threshold.
apply_reputation_UnbanStrict(self, reputation) ==
    LET previous == self.reputation
        s1 == [self EXCEPT !.reputation = saturating_add(previous, reputation)]
    IN  IF is_connected(s1.state) /\ is_banned(s1)
        THEN [ self |-> [s1 EXCEPT !.state = disconnect(s1.state)],
               ret  |-> "DisconnectAndBan" ]
        ELSE IF is_banned(s1) /\ ~is_banned_reputation(previous)
        THEN [ self |-> s1, ret |-> "Ban" ]
        ELSE IF s1.reputation > BANNED_REPUTATION /\ is_banned_reputation(previous)
        THEN [ self |-> s1, ret |-> "Unban" ]
        ELSE [ self |-> s1, ret |-> "None" ]

\* Variant of apply_reputation: the Ban test comes before the connected test.
apply_reputation_BanFirst(self, reputation) ==
    LET previous == self.reputation
        s1 == [self EXCEPT !.reputation = saturating_add(previous, reputation)]
    IN  IF is_banned(s1) /\ ~is_banned_reputation(previous)
        THEN [ self |-> s1, ret |-> "Ban" ]
        ELSE IF is_connected(s1.state) /\ is_banned(s1)
        THEN [ self |-> [s1 EXCEPT !.state = disconnect(s1.state)],
               ret  |-> "DisconnectAndBan" ]
        ELSE IF ~is_banned(s1) /\ is_banned_reputation(previous)
        THEN [ self |-> s1, ret |-> "Unban" ]
        ELSE [ self |-> s1, ret |-> "None" ]

\* Variant of apply_reputation: DisconnectAndBan is returned without the call
\* to self.state.disconnect().
apply_reputation_NoDisconnect(self, reputation) ==
    LET previous == self.reputation
        s1 == [self EXCEPT !.reputation = saturating_add(previous, reputation)]
    IN  IF is_connected(s1.state) /\ is_banned(s1)
        THEN [ self |-> s1, ret |-> "DisconnectAndBan" ]
        ELSE IF is_banned(s1) /\ ~is_banned_reputation(previous)
        THEN [ self |-> s1, ret |-> "Ban" ]
        ELSE IF ~is_banned(s1) /\ is_banned_reputation(previous)
        THEN [ self |-> s1, ret |-> "Unban" ]
        ELSE [ self |-> s1, ret |-> "None" ]

\* Variant of apply_reputation: a negative change is not applied to a
\* Trusted peer.
apply_reputation_TrustedExempt(self, reputation) ==
    LET previous == self.reputation
        s1 == IF is_trusted(self) /\ reputation < 0 THEN self
              ELSE [self EXCEPT !.reputation = saturating_add(previous, reputation)]
    IN  IF is_connected(s1.state) /\ is_banned(s1)
        THEN [ self |-> [s1 EXCEPT !.state = disconnect(s1.state)],
               ret  |-> "DisconnectAndBan" ]
        ELSE IF is_banned(s1) /\ ~is_banned_reputation(previous)
        THEN [ self |-> s1, ret |-> "Ban" ]
        ELSE IF ~is_banned(s1) /\ is_banned_reputation(previous)
        THEN [ self |-> s1, ret |-> "Unban" ]
        ELSE [ self |-> s1, ret |-> "None" ]

\* Variant of apply_reputation: a ban of a connected peer drops the session
\* at once, leaving the peer Idle.
apply_reputation_BanToIdle(self, reputation) ==
    LET previous == self.reputation
        s1 == [self EXCEPT !.reputation = saturating_add(previous, reputation)]
    IN  IF is_connected(s1.state) /\ is_banned(s1)
        THEN [ self |-> [s1 EXCEPT !.state = "Idle"],
               ret  |-> "DisconnectAndBan" ]
        ELSE IF is_banned(s1) /\ ~is_banned_reputation(previous)
        THEN [ self |-> s1, ret |-> "Ban" ]
        ELSE IF ~is_banned(s1) /\ is_banned_reputation(previous)
        THEN [ self |-> s1, ret |-> "Unban" ]
        ELSE [ self |-> s1, ret |-> "None" ]

\* Variant of apply_reputation: a peer that recovers from a ban is also
\* forgiven its backoff.
apply_reputation_ForgivesBackoff(self, reputation) ==
    LET previous == self.reputation
        s1 == [self EXCEPT !.reputation = saturating_add(previous, reputation)]
    IN  IF is_connected(s1.state) /\ is_banned(s1)
        THEN [ self |-> [s1 EXCEPT !.state = disconnect(s1.state)],
               ret  |-> "DisconnectAndBan" ]
        ELSE IF is_banned(s1) /\ ~is_banned_reputation(previous)
        THEN [ self |-> s1, ret |-> "Ban" ]
        ELSE IF ~is_banned(s1) /\ is_banned_reputation(previous)
        THEN [ self |-> [s1 EXCEPT !.backed_off = FALSE, !.severe_backoff_counter = 0],
               ret  |-> "Unban" ]
        ELSE [ self |-> s1, ret |-> "None" ]

\* Peer::apply_reputation (mod.rs 87-112)
apply_reputation(self, reputation) ==
    LET previous == self.reputation
        s1 == [self EXCEPT !.reputation = saturating_add(previous, reputation)]
    IN  IF is_connected(s1.state) /\ is_banned(s1)
        THEN [ self |-> [s1 EXCEPT !.state = disconnect(s1.state)],
               ret  |-> "DisconnectAndBan" ]
        ELSE IF is_banned(s1) /\ ~is_banned_reputation(previous)
        THEN [ self |-> s1, ret |-> "Ban" ]
        ELSE IF ~is_banned(s1) /\ is_banned_reputation(previous)
        THEN [ self |-> s1, ret |-> "Unban" ]
        ELSE [ self |-> s1, ret |-> "None" ]

----------------------------------------------------------------------------
(* PersistedPeerInfo (mod.rs 145-173) *)

\* no PersistedPeerInfo in hand / no stored entry in hand
NoInfo == [none |-> TRUE]
NoEntry == [absent |-> TRUE]

\* the fields of struct PersistedPeerInfo (mod.rs 151-161)
InfoFields == {"record", "kind", "fork_id", "reputation"}

\* the fields that carry neither serde(default) nor an Option type are
\* required by the derived Deserialize (mod.rs 150-160)
RequiredFields == {"record", "kind", "reputation"}

\* a value is a PersistedPeerInfo (not NoInfo, not an error)
IsInfo(v) == DOMAIN v = InfoFields

\* the error of the derived Deserialize for an entry without `field`
MissingField(field) == [error |-> "missing field", field |-> field]

\* PersistedPeerInfo::peer_id (mod.rs 165-167)
peer_id(self) == self.record.id

\* Variant of from_node_record: the entry is marked Trusted.
from_node_record_Trusted(record) ==
    [ record |-> record, kind |-> "Trusted", fork_id |-> NoForkId,
      reputation |-> DEFAULT_REPUTATION ]

\* PersistedPeerInfo::from_node_record (mod.rs 170-172)
from_node_record(record) ==
    [ record |-> record, kind |-> "Basic", fork_id |-> NoForkId,
      reputation |-> DEFAULT_REPUTATION ]

\* derived Serialize (mod.rs 150-161): every field is written, fork_id only
\* if it is Some (skip_serializing_if = "Option::is_none")
serialize(self) ==
    [ f \in (IF self.fork_id = NoForkId THEN InfoFields \ {"fork_id"} ELSE InfoFields)
        |-> self[f] ]

\* Variant of deserialize: the fork id of the entry is not read.
deserialize_DropsFork(e) ==
    IF ~(RequiredFields \subseteq DOMAIN e)
    THEN MissingField(CHOOSE f \in RequiredFields : f \notin DOMAIN e)
    ELSE [ record |-> e.record, kind |-> e.kind, fork_id |-> NoForkId,
           reputation |-> e.reputation ]

\* derived Deserialize (mod.rs 150-161): record, kind and reputation must be
\* present; fork_id is None when absent (serde(default))
deserialize(e) ==
    IF ~(RequiredFields \subseteq DOMAIN e)
    THEN MissingField(CHOOSE f \in RequiredFields : f \notin DOMAIN e)
    ELSE [ record |-> e.record, kind |-> e.kind,
           fork_id |-> IF "fork_id" \in DOMAIN e THEN e.fork_id ELSE NoForkId,
           reputation |-> e.reputation ]

\* The projection of a live Peer to its snapshot (section 3): record, kind,
\* fork announcement and reputation are kept, the other fields dropped.
persist(id, self) ==
    [ record |-> [id |-> id, address |-> self.addr], kind |-> self.kind,
      fork_id |-> self.fork_id, reputation |-> self.reputation ]

\* The Peer seeded from a snapshot entry at startup (section 3): a fresh
\* peer of the entry's kind with the entry's reputation and fork id.
rehydrate(self) ==
    [ with_kind(self.record.address, self.kind)
        EXCEPT !.reputation = self.reputation, !.fork_id = self.fork_id ]

----------------------------------------------------------------------------
(* db stage-checkpoints (stage_checkpoints.rs) *)

\* stages the command line can name (of the fifteen of StageArg), in the
\* order of their ids
StageOrder == <<"Execution", "Headers">>
StageArg == {StageOrder[i] : i \in DOMAIN StageOrder}

\* block numbers given on the command line or stored by the pipeline (u64)
BlockNumbers == {0, 10, 42}

\* stage-specific unit checkpoints; NoUnit is Option::None
NoUnit == "None"
StageUnits == {"unit"}

\* checkpoint progress bytes; NoProgress is an absent row
NoProgress == "None"
ProgressBytes == {"bytes123"}

\* an absent row of the checkpoint table (Option::None)
NoCheckpoint == [none |-> TRUE]

\* StageCheckpoint::default()
DefaultCheckpoint == [block_number |-> 0, stage_checkpoint |-> NoUnit]

\* Option::unwrap_or_default
unwrap_or_default(previous) ==
    IF previous = NoCheckpoint THEN DefaultCheckpoint ELSE previous

\* no command has run yet
NoCmd == [name |-> "none"]

\* Variant of set: the new row is built from the default checkpoint.
set_FromDefault(table, args) ==
    LET checkpoint == [DefaultCheckpoint EXCEPT !.block_number = args.block_number]
    IN  [table EXCEPT ![args.stage] = checkpoint]

\* Command::set (stage_checkpoints.rs 58-77): the checkpoint table after
\* the committed write
set(table, args) ==
    LET stage_id == args.stage
        previous == table[stage_id]
        loaded == unwrap_or_default(previous)
        numbered == [loaded EXCEPT !.block_number = args.block_number]
        checkpoint == IF args.clear_stage_unit
                      THEN [numbered EXCEPT !.stage_checkpoint = NoUnit]
                      ELSE numbered
    IN  [table EXCEPT ![stage_id] = checkpoint]

\* the lines printed by Command::get for all stages (stage_checkpoints.rs
\* 46-52): the stored rows sorted by stage id
get_all_checkpoints(table) ==
    LET Stored(stage) == table[stage] # NoCheckpoint
        names == SelectSeq(StageOrder, Stored)
    IN  [i \in DOMAIN names |-> <<names[i], table[names[i]]>>]

\* the lines printed by Command::get (stage_checkpoints.rs 37-56); stage is
\* a StageArg or NoArg
get(table, stage) ==
    IF stage # NoArg THEN <<(<<stage, table[stage]>>)>> ELSE get_all_checkpoints(table)

----------------------------------------------------------------------------
(* State machine *)

\* A peer as any of the four constructors returns it.
Init ==
    /\ \E addr \in Addrs :
         \/ peer = new(addr) /\ lastOp = "new" /\ given = NoArg
         \/ peer = trusted(addr) /\ lastOp = "trusted" /\ given = NoArg
         \/ \E kind \in PeerKind :
                peer = with_kind(addr, kind) /\ lastOp = "with_kind" /\ given = kind
         \/ \E state \in PeerConnectionState :
                peer = with_state(addr, state) /\ lastOp = "with_state" /\ given = state
    /\ basic = with_state(peer.addr, peer.state)
    /\ key \in PeerIds
    /\ entry = NoEntry
    /\ info = NoInfo
    /\ checkpoints = [stage \in StageArg |-> NoCheckpoint]
    /\ progress = [stage \in StageArg |-> NoProgress]
    /\ prev = [checkpoints |-> checkpoints, progress |-> progress]
    /\ cmd = NoCmd
    /\ before = peer
    /\ delta = 0
    /\ outcome = Unit
    /\ applies = 0

\* An operation on the running peer leaves its key alone; nothing is being
\* written to or read from the snapshot, and the database is not touched.
NoSnapshot == key' = key /\ entry' = NoEntry /\ info' = NoInfo /\ UNCHANGED dbVars

\* peer.apply_reputation(d, _)
ApplyReputation ==
    \E d \in Deltas :
        /\ applies < MaxApplies
        /\ peer' = apply_reputation(peer, d).self
        /\ outcome' = apply_reputation(peer, d).ret
        /\ basic' = apply_reputation(basic, d).self
        /\ before' = peer
        /\ delta' = d
        /\ lastOp' = "apply_reputation"
        /\ applies' = applies + 1
        /\ given' = NoArg
        /\ NoSnapshot

\* peer.reset_reputation()
ResetReputation ==
    /\ peer' = reset_reputation(peer).self
    /\ outcome' = reset_reputation(peer).ret
    /\ basic' = reset_reputation(basic).self
    /\ before' = peer
    /\ lastOp' = "reset_reputation"
    /\ delta' = 0
    /\ given' = NoArg
    /\ NoSnapshot
    /\ UNCHANGED applies

\* peer.unban()
Unban ==
    /\ peer' = unban(peer).self
    /\ outcome' = unban(peer).ret
    /\ basic' = unban(basic).self
    /\ before' = peer
    /\ lastOp' = "unban"
    /\ delta' = 0
    /\ given' = NoArg
    /\ NoSnapshot
    /\ UNCHANGED applies

\* An operation named op of the peer's owner that returns nothing: the peer
\* becomes p and the second peer b.
PeerStep(op, p, b) ==
    /\ peer' = p
    /\ basic' = b
    /\ before' = peer
    /\ lastOp' = op
    /\ outcome' = Unit
    /\ delta' = 0
    /\ given' = NoArg
    /\ NoSnapshot
    /\ UNCHANGED applies

\* A transition of peer.state named op: the peer's state becomes s and the
\* second peer's state b; nothing is returned.
StateStep(op, s, b) ==
    PeerStep(op, [peer EXCEPT !.state = s], [basic EXCEPT !.state = b])

\* peer.state.disconnect(), requested in any state
Disconnect == StateStep("disconnect", disconnect(peer.state), disconnect(basic.state))

\* the transport's signals, each in the states where it can arrive
DialInitiated ==
    /\ peer.state = "Idle"
    /\ StateStep("dial_initiated", dial_initiated(peer.state), dial_initiated(basic.state))

InboundHandshake ==
    /\ peer.state = "Idle"
    /\ StateStep("inbound_handshake",
                 inbound_handshake(peer.state), inbound_handshake(basic.state))

\* handshake success: the session is established
HandshakeSuccess ==
    /\ peer.state \in {"ConnectingOutbound", "ConnectingInbound"}
    /\ PeerStep("handshake_success",
                connection_established(peer), connection_established(basic))

\* handshake failure, of the severe category or not
HandshakeFailure ==
    \E severe \in BOOLEAN :
        /\ peer.state \in {"ConnectingOutbound", "ConnectingInbound"}
        /\ severe => peer.severe_backoff_counter < MaxSevereBackoff
        /\ PeerStep(IF severe THEN "severe_failure" ELSE "handshake_failure",
                    connection_failed(peer, severe), connection_failed(basic, severe))

ClosureConfirmed ==
    /\ peer.state = "Disconnecting"
    /\ StateStep("closure_confirmed",
                 closure_confirmed(peer.state), closure_confirmed(basic.state))

\* discovery reports the fork id the peer announced: peer.fork_id = Some(f)
AnnounceFork ==
    \E f \in ForkIds :
        /\ peer.fork_id # f
        /\ PeerStep("announce_fork",
                    [peer EXCEPT !.fork_id = f], [basic EXCEPT !.fork_id = f])

\* the owner marks the entry for removal: peer.remove_after_disconnect = true
MarkRemoveAfterDisconnect ==
    /\ ~peer.remove_after_disconnect
    /\ PeerStep("mark_remove_after_disconnect",
                [peer EXCEPT !.remove_after_disconnect = TRUE],
                [basic EXCEPT !.remove_after_disconnect = TRUE])

Next ==
    \/ ApplyReputation
    \/ ResetReputation
    \/ Unban
    \/ Disconnect
    \/ DialInitiated
    \/ InboundHandshake
    \/ HandshakeSuccess
    \/ HandshakeFailure
    \/ ClosureConfirmed
    \/ AnnounceFork
    \/ MarkRemoveAfterDisconnect

Spec == Init /\ [][Next]_vars

----------------------------------------------------------------------------
(* Shutdown and startup: the persisted snapshot *)

\* A step of the snapshot path named op: the entry in hand becomes e and the
\* PersistedPeerInfo in hand i; the peer is not touched.
SnapshotStep(op, e, i) ==
    /\ entry' = e
    /\ info' = i
    /\ before' = peer
    /\ lastOp' = op
    /\ outcome' = Unit
    /\ delta' = 0
    /\ given' = NoArg
    /\ UNCHANGED <<peer, basic, key, applies>>
    /\ UNCHANGED dbVars

\* the peer is live: no snapshot is being written or read, or the startup
\* has just seeded the peer
Running == (entry = NoEntry /\ info = NoInfo) \/ lastOp = "rehydrate"

\* shutdown: the live peer is projected and the projection written
Flush ==
    /\ Running
    /\ SnapshotStep("flush", serialize(persist(key, peer)), persist(key, peer))

\* an entry that lacks one of the optional fields (written by another
\* version of the format, or by hand)
DropField ==
    \E f \in {"kind", "fork_id", "reputation"} :
        /\ entry # NoEntry
        /\ f \in DOMAIN entry
        /\ SnapshotStep("drop_field", [g \in DOMAIN entry \ {f} |-> entry[g]], NoInfo)

\* startup: the stored entry is deserialized
Load ==
    /\ entry # NoEntry
    /\ lastOp \in {"flush", "drop_field"}
    /\ SnapshotStep("load", entry, deserialize(entry))

\* startup from a legacy peer list: a bare NodeRecord is converted
ImportLegacy ==
    \E record \in NodeRecords :
        /\ lastOp = "flush"
        /\ SnapshotStep("from_node_record", record, from_node_record(record))

\* startup: a fresh Peer is seeded from the PersistedPeerInfo in hand
Rehydrate ==
    /\ IsInfo(info)
    /\ lastOp \in {"flush", "load", "from_node_record"}
    /\ peer' = rehydrate(info)
    /\ basic' = [rehydrate(info) EXCEPT !.kind = DefaultKind]
    /\ key' = peer_id(info)
    /\ before' = peer
    /\ lastOp' = "rehydrate"
    /\ outcome' = Unit
    /\ delta' = 0
    /\ given' = NoArg
    /\ UNCHANGED <<entry, info, applies>>
    /\ UNCHANGED dbVars

NextSnapshot ==
    \/ (Running /\ Next)
    \/ Flush
    \/ DropField
    \/ Load
    \/ ImportLegacy
    \/ Rehydrate

SpecSnapshot == Init /\ [][NextSnapshot]_vars

----------------------------------------------------------------------------
(* The stage-checkpoints command and the pipeline writing the same tables *)

peerVars == <<peer, basic, before, lastOp, delta, outcome, applies, given, key, entry, info>>

\* the tables as they are now
Tables == [checkpoints |-> checkpoints, progress |-> progress]

\* reth db stage-checkpoints set --stage .. --block-number .. [--clear-stage-unit]
Set ==
    \E stage \in StageArg, block_number \in BlockNumbers, clear_stage_unit \in BOOLEAN :
        LET args == [stage |-> stage, block_number |-> block_number,
                     clear_stage_unit |-> clear_stage_unit]
        IN  /\ checkpoints' = set(checkpoints, args)
            /\ prev' = Tables
            /\ cmd' = [name |-> "set", args |-> args]
            /\ UNCHANGED progress
            /\ UNCHANGED peerVars

\* reth db stage-checkpoints get [--stage ..]
Get ==
    \E stage \in StageArg \cup {NoArg} :
        /\ prev' = Tables
        /\ cmd' = [name |-> "get", stage |-> stage, out |-> get(checkpoints, stage)]
        /\ UNCHANGED <<checkpoints, progress>>
        /\ UNCHANGED peerVars

\* the pipeline saves a checkpoint of a stage (save_stage_checkpoint, as in
\* the tests at stage_checkpoints.rs 189-196 and 221-236)
SaveStageCheckpoint ==
    \E stage \in StageArg, block_number \in BlockNumbers, unit \in StageUnits \cup {NoUnit} :
        /\ checkpoints' = [checkpoints EXCEPT
                              ![stage] = [block_number |-> block_number,
                                          stage_checkpoint |-> unit]]
        /\ prev' = Tables
        /\ cmd' = [name |-> "save_stage_checkpoint", stage |-> stage]
        /\ UNCHANGED progress
        /\ UNCHANGED peerVars

\* the pipeline saves progress bytes of a stage
\* (save_stage_checkpoint_progress, as in the test at stage_checkpoints.rs 271-277)
SaveStageCheckpointProgress ==
    \E stage \in StageArg, bytes \in ProgressBytes :
        /\ progress' = [progress EXCEPT ![stage] = bytes]
        /\ prev' = Tables
        /\ cmd' = [name |-> "save_stage_checkpoint_progress", stage |-> stage]
        /\ UNCHANGED checkpoints
        /\ UNCHANGED peerVars

NextCheckpoints ==
    \/ Set
    \/ Get
    \/ SaveStageCheckpoint
    \/ SaveStageCheckpointProgress

SpecCheckpoints == Init /\ [][NextCheckpoints]_vars

\* The transport reports every completion: a closure that stays pending is
\* eventually confirmed.
SpecFair == Spec /\ WF_vars(ClosureConfirmed)

----------------------------------------------------------------------------
(* Type correctness *)

TypeOK ==
    /\ peer.reputation \in I32_MIN..I32_MAX
    /\ peer.state \in PeerConnectionState
    /\ peer.kind \in PeerKind
    /\ outcome \in ReputationChangeOutcome \cup {Unit}
    /\ applies \in 0..MaxApplies
    /\ key \in PeerIds
    /\ \A stage \in StageArg :
          \/ checkpoints[stage] = NoCheckpoint
          \/ /\ checkpoints[stage].block_number \in BlockNumbers
             /\ checkpoints[stage].stage_checkpoint \in StageUnits \cup {NoUnit}
    /\ \A stage \in StageArg : progress[stage] \in ProgressBytes \cup {NoProgress}
    /\ info # NoInfo => (IsInfo(info) \/ info.error = "missing field")

----------------------------------------------------------------------------
(* Properties of the reputation engine *)

\* the last operation was an apply_reputation call
Applied == lastOp = "apply_reputation"

\* the score before / after the last call is below the ban threshold
WasBanned == is_banned_reputation(before.reputation)
NowBanned == is_banned_reputation(peer.reputation)

\* C1 as stated: a call that takes the score from at/above the threshold to
\* below it returns Ban or DisconnectAndBan, and every call whose previous
\* and new scores are both below the threshold returns None.
C1_OneBanPerCrossing ==
    Applied =>
        /\ (~WasBanned /\ NowBanned) => outcome \in {"Ban", "DisconnectAndBan"}
        /\ (WasBanned /\ NowBanned) => outcome = "None"

\* C1 amended: a call that takes the score from at/above the threshold to
\* below it returns Ban or DisconnectAndBan; a call whose previous and new
\* scores are both below the threshold returns None when the peer is not
\* Connected at the call and DisconnectAndBan when it is; Ban is returned
\* only on a crossing.
C1_OneBanPerCrossingUnlessConnected ==
    Applied =>
        /\ (~WasBanned /\ NowBanned) => outcome \in {"Ban", "DisconnectAndBan"}
        /\ (WasBanned /\ NowBanned) =>
               outcome = IF is_connected(before.state) THEN "DisconnectAndBan" ELSE "None"
        /\ outcome = "Ban" => (~WasBanned /\ NowBanned)
        /\ outcome = "DisconnectAndBan" => NowBanned

\* C1 witness: a call on an already banned, not connected peer that keeps it
\* banned returned None.
C1_Witness ==
    /\ Applied /\ WasBanned /\ NowBanned
    /\ ~is_connected(before.state)
    /\ outcome = "None"

\* C2: apply_reputation returns Unban exactly when the previous score was
\* below the threshold and the new score is at or above it (a recovery to
\* exactly the threshold included); so a call returns Unban only if the score
\* was below the threshold when it was made.
C2_UnbanIffRecovery ==
    Applied => (outcome = "Unban" <=> (WasBanned /\ peer.reputation >= BANNED_REPUTATION))

\* C2 witness: Unban returned on a recovery to exactly the threshold.
C2_Witness ==
    /\ Applied /\ outcome = "Unban"
    /\ before.reputation < BANNED_REPUTATION
    /\ peer.reputation = BANNED_REPUTATION

\* C3: reputation is always within [i32::MIN, i32::MAX]; a change that would
\* pass MAX leaves it at MAX, one that would pass MIN leaves it at MIN, any
\* other gives the exact sum; reset_reputation and unban give the default.
C3_ReputationSaturates ==
    /\ peer.reputation \in I32_MIN..I32_MAX
    /\ Applied =>
         IF delta > 0 /\ before.reputation > I32_MAX - delta
         THEN peer.reputation = I32_MAX
         ELSE IF delta < 0 /\ before.reputation < I32_MIN - delta
         THEN peer.reputation = I32_MIN
         ELSE peer.reputation = before.reputation + delta
    /\ lastOp \in {"reset_reputation", "unban"} => peer.reputation = DEFAULT_REPUTATION

\* C3 witness: a positive change applied to a score so close to MAX that the
\* sum passes MAX, and a state where a negative change passed MIN.
C3_Witness ==
    /\ Applied
    /\ \/ delta > 0 /\ before.reputation > I32_MAX - delta /\ before.reputation < I32_MAX
          /\ peer.reputation = I32_MAX
       \/ delta < 0 /\ before.reputation < I32_MIN - delta /\ before.reputation > I32_MIN
          /\ peer.reputation = I32_MIN

\* The outcome table of the design document (section 4.2), on the connection
\* state at the call and the scores before and after it.
ReferenceOutcome(state, previous, current) ==
    IF state = "Connected" /\ current < BANNED_REPUTATION THEN "DisconnectAndBan"
    ELSE IF previous >= BANNED_REPUTATION /\ current < BANNED_REPUTATION THEN "Ban"
    ELSE IF previous < BANNED_REPUTATION /\ current >= BANNED_REPUTATION THEN "Unban"
    ELSE "None"

\* C4: every apply_reputation call returns one of the four outcomes, and it
\* is the one the reference table gives for the connection state at the call,
\* the previous score and the new score.
C4_OutcomeMatchesReference ==
    Applied =>
        /\ outcome \in ReputationChangeOutcome
        /\ outcome = ReferenceOutcome(before.state, before.reputation, peer.reputation)

\* C4 witness: a connected peer crossed the threshold and the call returned
\* DisconnectAndBan, where the second row of the table alone would give Ban.
C4_Witness ==
    /\ Applied /\ before.state = "Connected"
    /\ ~WasBanned /\ NowBanned
    /\ outcome = "DisconnectAndBan"

\* C5: when apply_reputation returns DisconnectAndBan the state has moved
\* from Connected to Disconnecting within the call, so is_connected() is
\* false and is_banned() is true on return; no apply_reputation call returns
\* with the peer both Connected and below the threshold.
C5_BanWhileConnectedDisconnects ==
    Applied =>
        /\ outcome = "DisconnectAndBan" =>
              /\ before.state = "Connected"
              /\ peer.state = "Disconnecting"
              /\ ~is_connected(peer.state)
              /\ is_banned(peer)
        /\ ~(is_connected(peer.state) /\ is_banned(peer))

\* C5 witness: the scenario of section 8: default reputation, connected,
\* -60 applied.
C5_Witness ==
    /\ Applied /\ outcome = "DisconnectAndBan"
    /\ before.reputation = DEFAULT_REPUTATION /\ delta = -60
    /\ peer.state = "Disconnecting" /\ is_banned(peer)

\* C6 as stated: unban() and reset_reputation() set reputation to the
\* default, leave is_banned() false, report outcome None and leave the
\* connection state unchanged.
C6_ResetAndUnbanReturnNone ==
    lastOp \in {"reset_reputation", "unban"} =>
        /\ peer.reputation = DEFAULT_REPUTATION
        /\ ~is_banned(peer)
        /\ outcome = "None"
        /\ peer.state = before.state

\* C6 amended: unban() and reset_reputation() set reputation to the default,
\* leave is_banned() false and change no other field of the peer;
\* reset_reputation() reports outcome None and unban() returns no value at
\* all, so neither reports Unban, also when the peer was banned before.
C6_ResetAndUnbanRestoreDefault ==
    lastOp \in {"reset_reputation", "unban"} =>
        /\ peer = [before EXCEPT !.reputation = DEFAULT_REPUTATION]
        /\ ~is_banned(peer)
        /\ peer.state = before.state
        /\ outcome = IF lastOp = "reset_reputation" THEN "None" ELSE Unit
        /\ outcome # "Unban"

\* C6 witness: unban() on a banned peer in a state other than Idle restored
\* the default and returned nothing.
C6_Witness ==
    /\ lastOp = "unban" /\ WasBanned
    /\ before.state # "Idle"
    /\ outcome = Unit
    /\ peer.reputation = DEFAULT_REPUTATION

\* C7 as stated, for the engine: an apply_reputation call on a Trusted peer
\* never moves its state from Connected to Disconnecting.
C7_TrustedNeverSevered ==
    (Applied /\ is_trusted(before)) =>
        ~(before.state = "Connected" /\ peer.state = "Disconnecting")

\* C8: the score and is_banned() do not depend on the trust class: the peer,
\* of whatever kind, has the reputation and the is_banned() value of a Basic
\* peer given the same operations, and is_banned() is true exactly when the
\* reputation is below the threshold.
C8_ScoreIndependentOfKind ==
    /\ peer.reputation = basic.reputation
    /\ is_banned(peer) = is_banned(basic)
    /\ is_banned(peer) <=> peer.reputation < BANNED_REPUTATION

\* C8 witness: a Trusted peer whose reputation fell below the threshold
\* reports is_banned().
C8_Witness ==
    /\ Applied /\ is_trusted(peer)
    /\ ~WasBanned /\ is_banned(peer)
    /\ basic.kind = "Basic"

\* C10: disconnect() moves Connected to Disconnecting and changes nothing in
\* any other state; a disconnect that follows a ban-triggered disconnect,
\* before or after the transport confirmed the closure, changes nothing.
C10_DisconnectIdempotent ==
    lastOp = "disconnect" =>
        /\ before.state = "Connected" => peer = [before EXCEPT !.state = "Disconnecting"]
        /\ before.state # "Connected" => peer = before
        /\ peer.state \in PeerConnectionState

\* C10 witness: a disconnect on a peer that a ban had already moved to
\* Disconnecting left it as it was.
C10_Witness ==
    /\ lastOp = "disconnect"
    /\ before.state = "Disconnecting" /\ is_banned(before)
    /\ peer = before

----------------------------------------------------------------------------
(* Properties of the backoff escalator *)

\* C11: a severe-category connection failure increases
\* severe_backoff_counter by exactly one and sets backed_off; a failure of
\* another category leaves the counter as it was; a successful connection
\* sets the counter to 0 and backed_off to false.
C11_SevereBackoffCounts ==
    /\ lastOp = "severe_failure" =>
          /\ peer.severe_backoff_counter = before.severe_backoff_counter + 1
          /\ peer.backed_off
    /\ lastOp = "handshake_failure" =>
          peer.severe_backoff_counter = before.severe_backoff_counter
    /\ lastOp = "handshake_success" =>
          /\ peer.severe_backoff_counter = 0
          /\ ~peer.backed_off

\* C11 witness: a successful connection after three severe failures in a row
\* took the counter from 3 to 0 and cleared backed_off.
C11_Witness ==
    /\ lastOp = "handshake_success"
    /\ before.severe_backoff_counter = 3 /\ before.backed_off
    /\ peer.severe_backoff_counter = 0 /\ ~peer.backed_off

\* C12 as stated: after unban() backed_off is false and
\* severe_backoff_counter is zero, whatever they were before.
C12_UnbanClearsBackoff ==
    lastOp = "unban" => (~peer.backed_off /\ peer.severe_backoff_counter = 0)

\* C12 amended: unban() resets the reputation only: backed_off and
\* severe_backoff_counter keep the values they had before the call.
C12_UnbanKeepsBackoff ==
    lastOp = "unban" =>
        /\ peer.backed_off = before.backed_off
        /\ peer.severe_backoff_counter = before.severe_backoff_counter
        /\ peer.reputation = DEFAULT_REPUTATION

\* C12 witness: unban() of a banned peer that is backed off after two severe
\* failures left it backed off with the counter at 2.
C12_Witness ==
    /\ lastOp = "unban" /\ WasBanned
    /\ before.backed_off /\ before.severe_backoff_counter = 2
    /\ peer.backed_off /\ peer.severe_backoff_counter = 2

----------------------------------------------------------------------------
(* Properties of the connection state machine and the constructors *)

\* the transitions listed in section 4.3
ListedTransitions ==
    { <<"Idle", "ConnectingOutbound">>, <<"Idle", "ConnectingInbound">>,
      <<"ConnectingOutbound", "Connected">>, <<"ConnectingInbound", "Connected">>,
      <<"ConnectingOutbound", "Idle">>, <<"ConnectingInbound", "Idle">>,
      <<"Connected", "Disconnecting">>, <<"Disconnecting", "Idle">> }

\* the state is one of the five, every change of it by an operation is a
\* listed transition, and is_connected() is true only in Connected
MovesAlongListedTransitions ==
    /\ peer.state \in PeerConnectionState
    /\ before.state # peer.state => <<before.state, peer.state>> \in ListedTransitions
    /\ \A st \in PeerConnectionState : is_connected(st) => st = "Connected"
    /\ is_connected(peer.state) => peer.state = "Connected"

\* C16 as stated: the state is always one of the five, a fresh peer is Idle,
\* the state changes only along the listed transitions, and is_connected()
\* is true only in Connected.
C16_StartsIdleAndMovesAsListed ==
    /\ MovesAlongListedTransitions
    /\ lastOp \in Constructors => peer.state = "Idle"

\* C16 amended: as stated, except that a peer built by with_state starts in
\* the state handed to with_state, which can be any of the five (Connected
\* included); peers built by new, trusted and with_kind start Idle.
C16_MovesAsListed ==
    /\ MovesAlongListedTransitions
    /\ lastOp \in Constructors \ {"with_state"} => peer.state = "Idle"
    /\ lastOp = "with_state" => peer.state = given

\* C16 witness: a ban moved a connected peer to Disconnecting.
C16_Witness ==
    /\ Applied /\ before.state = "Connected" /\ peer.state = "Disconnecting"

\* C18 as stated: every constructor returns a peer with the default
\* reputation, state Idle, no fork id, remove_after_disconnect false,
\* backed_off false and counter 0; new and with_state give kind Basic,
\* with_kind the given kind, trusted the kind Trusted; a fresh peer is not
\* banned.
C18_ConstructorsGiveIdleDefaults ==
    lastOp \in Constructors =>
        /\ peer.reputation = DEFAULT_REPUTATION
        /\ peer.state = "Idle"
        /\ peer.fork_id = NoForkId
        /\ ~peer.remove_after_disconnect
        /\ ~peer.backed_off
        /\ peer.severe_backoff_counter = 0
        /\ lastOp \in {"new", "with_state"} => peer.kind = "Basic"
        /\ lastOp = "with_kind" => peer.kind = given
        /\ lastOp = "trusted" => peer.kind = "Trusted"
        /\ ~is_banned(peer)

\* C18 amended: as stated, except for the state: new, trusted and with_kind
\* give state Idle, with_state gives the state handed to it.
C18_ConstructorsGiveDefaults ==
    lastOp \in Constructors =>
        /\ peer.reputation = DEFAULT_REPUTATION
        /\ lastOp # "with_state" => peer.state = "Idle"
        /\ lastOp = "with_state" => peer.state = given
        /\ peer.fork_id = NoForkId
        /\ ~peer.remove_after_disconnect
        /\ ~peer.backed_off
        /\ peer.severe_backoff_counter = 0
        /\ lastOp \in {"new", "with_state"} => peer.kind = "Basic"
        /\ lastOp = "with_kind" => peer.kind = given
        /\ lastOp = "trusted" => peer.kind = "Trusted"
        /\ ~is_banned(peer)

\* C18 witness: with_state(addr, Connected) returned a connected peer with
\* every other field at its default.
C18_Witness ==
    /\ lastOp = "with_state" /\ given = "Connected"
    /\ peer.state = "Connected" /\ peer.kind = "Basic"
    /\ peer.reputation = DEFAULT_REPUTATION

\* C20: is_banned() turns true only in an apply_reputation call that returns
\* Ban or DisconnectAndBan, and turns false only in an apply_reputation call
\* that returns Unban or in unban() / reset_reputation(); no other operation
\* changes it.
C20_BanFlagChangesOnlyWithOutcome ==
    /\ (~WasBanned /\ NowBanned) =>
          (Applied /\ outcome \in {"Ban", "DisconnectAndBan"})
    /\ (WasBanned /\ ~NowBanned) =>
          \/ Applied /\ outcome = "Unban"
          \/ lastOp \in {"unban", "reset_reputation"}

\* C20 witness: reset_reputation() turned is_banned() from true to false.
C20_Witness ==
    /\ lastOp = "reset_reputation"
    /\ WasBanned /\ ~NowBanned

\* C21: apply_reputation leaves addr, kind, fork_id,
\* remove_after_disconnect, backed_off and severe_backoff_counter as they
\* were; the connection state differs after the call exactly when the call
\* returned DisconnectAndBan (then it went from Connected to Disconnecting),
\* so for Ban, Unban and None the state is as before.
C21_ApplyChangesOnlyScoreAndState ==
    Applied =>
        /\ peer.addr = before.addr
        /\ peer.kind = before.kind
        /\ peer.fork_id = before.fork_id
        /\ peer.remove_after_disconnect = before.remove_after_disconnect
        /\ peer.backed_off = before.backed_off
        /\ peer.severe_backoff_counter = before.severe_backoff_counter
        /\ (peer.state # before.state) <=> (outcome = "DisconnectAndBan")
        /\ outcome = "DisconnectAndBan" =>
              (before.state = "Connected" /\ peer.state = "Disconnecting")
        /\ peer = [before EXCEPT !.reputation = peer.reputation, !.state = peer.state]

\* C21 witness: a Static peer with a fork id and the removal mark set was
\* connected and the call returned DisconnectAndBan.
C21_Witness ==
    /\ Applied
    /\ outcome = "DisconnectAndBan"
    /\ peer.reputation # before.reputation
    /\ before.kind = "Static"
    /\ before.fork_id # NoForkId
    /\ before.remove_after_disconnect

\* a step of the connection automaton that changes the state
StateChange ==
    \/ DialInitiated
    \/ InboundHandshake
    \/ HandshakeSuccess
    \/ HandshakeFailure
    \/ ClosureConfirmed
    \/ (peer.state = "Connected" /\ Disconnect)

\* C17: under fairness of the transport's completion signals a peer that is
\* Disconnecting (also after a ban-triggered disconnect) eventually is Idle;
\* in Idle a new connection attempt can start, and in every state some step
\* of the automaton is possible.
C17_DisconnectingLeadsToIdle ==
    /\ (peer.state = "Disconnecting") ~> (peer.state = "Idle")
    /\ [](peer.state = "Idle" => ENABLED DialInitiated)
    /\ [](ENABLED StateChange)

\* C17 witness: the closure of a ban-triggered disconnect was confirmed and
\* the banned peer is Idle again.
C17_Witness ==
    /\ lastOp = "closure_confirmed"
    /\ before.state = "Disconnecting" /\ peer.state = "Idle"
    /\ is_banned(peer)


----------------------------------------------------------------------------
(* Properties of the persisted snapshot *)

\* the peer has just been seeded from the entry that the flush of the peer
\* `before` wrote under the same key
RoundTripped == lastOp = "rehydrate" /\ entry = serialize(persist(key, before))

\* C13: a peer that is projected to a PersistedPeerInfo, written, read and
\* rehydrated has the kind, reputation, fork id and record (id and address)
\* it had, and is Idle with remove_after_disconnect false, backed_off false
\* and severe_backoff_counter 0, whatever those four fields were.
C13_RoundTripKeepsKindScoreFork ==
    RoundTripped =>
        /\ peer.kind = before.kind
        /\ peer.reputation = before.reputation
        /\ peer.fork_id = before.fork_id
        /\ peer.addr = before.addr
        /\ key = entry.record.id
        /\ peer.state = "Idle"
        /\ ~peer.remove_after_disconnect
        /\ ~peer.backed_off
        /\ peer.severe_backoff_counter = 0

\* a Trusted, dialling, backed-off peer with a score, a fork id and the
\* removal mark set has gone through the round trip
C13_Witness ==
    /\ RoundTripped
    /\ before.kind = "Trusted"
    /\ before.reputation # DEFAULT_REPUTATION
    /\ before.fork_id # NoForkId
    /\ before.state = "ConnectingOutbound"
    /\ before.remove_after_disconnect
    /\ before.backed_off
    /\ before.severe_backoff_counter > 0

\* the entry that was loaded lacks at least one of the optional fields
LoadedPartialEntry == lastOp = "load" /\ InfoFields \ DOMAIN entry # {}

\* C14: loading an entry in which reputation, kind or fork id is absent
\* succeeds and fills the field with its default (default reputation, Basic,
\* no fork id); and a PersistedPeerInfo without a fork id is written without
\* the fork_id field.
C14_AbsentFieldsDefaultOnLoad ==
    /\ LoadedPartialEntry =>
        /\ IsInfo(info)
        /\ info.reputation =
              IF "reputation" \in DOMAIN entry THEN entry.reputation ELSE DEFAULT_REPUTATION
        /\ info.kind = IF "kind" \in DOMAIN entry THEN entry.kind ELSE DefaultKind
        /\ info.fork_id = IF "fork_id" \in DOMAIN entry THEN entry.fork_id ELSE NoForkId
    /\ lastOp = "flush" =>
        ("fork_id" \in DOMAIN entry <=> info.fork_id # NoForkId)

\* C19: from_node_record(record) is a PersistedPeerInfo with that record,
\* kind Basic, no fork id and the default reputation; peer_id() of a
\* PersistedPeerInfo is the id of its record.
C19_FromNodeRecordDefaults ==
    /\ lastOp = "from_node_record" =>
        info = [ record |-> entry, kind |-> "Basic", fork_id |-> NoForkId,
                 reputation |-> DEFAULT_REPUTATION ]
    /\ IsInfo(info) => peer_id(info) = info.record.id
    /\ lastOp = "rehydrate" => key = info.record.id

\* a legacy record with another id than the live peer's has been converted
\* while the live peer was Trusted with a fork id and a score
C19_Witness ==
    /\ lastOp = "from_node_record"
    /\ peer_id(info) # key
    /\ peer.kind = "Trusted"
    /\ peer.fork_id # NoForkId
    /\ peer.reputation # DEFAULT_REPUTATION


----------------------------------------------------------------------------
(* Properties of the stage-checkpoints command *)

\* the last command was `set`
DidSet == cmd.name = "set"

\* C15: `set` stores, for the chosen stage, the given block_number; the
\* stage unit checkpoint stored before is kept unless clear_stage_unit is
\* given (then it is none); when no checkpoint was stored the new one is the
\* default with the given block_number; the progress bytes of the stage and
\* the checkpoints of all other stages are as before. `get` changes neither
\* table.
C15_SetTouchesOnlyBlockNumber ==
    /\ DidSet =>
        LET args == cmd.args
            previous == prev.checkpoints[args.stage]
            saved == checkpoints[args.stage]
        IN  /\ saved # NoCheckpoint
            /\ saved.block_number = args.block_number
            /\ (previous # NoCheckpoint /\ ~args.clear_stage_unit) =>
                    saved.stage_checkpoint = previous.stage_checkpoint
            /\ args.clear_stage_unit => saved.stage_checkpoint = NoUnit
            /\ previous = NoCheckpoint =>
                    saved = [DefaultCheckpoint EXCEPT !.block_number = args.block_number]
            /\ progress = prev.progress
            /\ \A stage \in StageArg \ {args.stage} :
                    checkpoints[stage] = prev.checkpoints[stage]
    /\ cmd.name = "get" => Tables = prev

\* `set` without clear_stage_unit has changed the block number of a stage
\* that had a unit checkpoint and progress bytes, while the other stage had
\* a checkpoint too
C15_Witness ==
    /\ DidSet
    /\ ~cmd.args.clear_stage_unit
    /\ prev.checkpoints[cmd.args.stage] # NoCheckpoint
    /\ prev.checkpoints[cmd.args.stage].stage_checkpoint # NoUnit
    /\ prev.checkpoints[cmd.args.stage].block_number # cmd.args.block_number
    /\ progress[cmd.args.stage] # NoProgress
    /\ \E stage \in StageArg \ {cmd.args.stage} : checkpoints[stage] # NoCheckpoint

====
